---- MODULE Spec2Model ----
(***************************************************************************)
(* The commit-driven character evolution pipeline of potnoodledev:         *)
(* the persisted ledger (commit-history.json), its published copy under    *)
(* src/assets, and the entry points that read and write them               *)
(*   checkForEvolution      src/src/scripts/character-evolution.js         *)
(*   resetEvolutionHistory  src/src/scripts/character-evolution.js         *)
(*   simulateNewCommit      src/test-evolution.js                          *)
(*   forceEvolution         src/unnamed/part_002 (force-evolution.js)      *)
(*   manual generate        src/generate-character.js                      *)
(* Every entry point is an async function: it runs synchronously up to its *)
(* next await, so each action below is one such synchronous stretch, and   *)
(* the stretches of different entry points interleave freely (nothing in   *)
(* the code excludes one while another is suspended).                      *)
(***************************************************************************)
EXTENDS Integers, Sequences, FiniteSets, TLC

----------------------------------------------------------------------------
(* Bounds of the model *)

\* commits that can ever appear in the commit feed
MaxCommits == 2
\* the wall clock runs from 1 to MaxTime
MaxTime == 2
\* entry-point invocations in one behaviour
MaxOps == 3
\* entry points in flight at the same time
MaxInFlight == 2
\* single steps already taken when the check cycles start (SpecGrown)
MaxGrown == 4

----------------------------------------------------------------------------
(* Program constants *)

COMMITS_PER_EVOLUTION == 1

\* "Every 3 commits triggers an evolution" (the README of the evolution system)
README_COMMITS_PER_EVOLUTION == 3

\* commitsToProcess = commits.slice(0, 6)
FORCE_MAX_COMMITS == 6

CanonicalDescription ==
  "Noodle scout facing right, explorer tunic, wooden spoon, steaming backpack"

ForceInitialDescription ==
  "simple explorer facing right with basic pot noodle backpack and plain noodle-colored clothes"

fallbackDescriptions ==
  << "explorer facing right, simple clothes, wooden spoon, pot noodle backpack",
     "explorer facing right, noodle-patterned clothes, glowing spoon, steaming backpack",
     "noodle scout facing right, light armor, spoon staff, steam aura",
     "noodle mage facing right, protective robes, magic ladle, floating noodles",
     "noodle master facing right, armored robes, golden spoon staff, glowing broth aura" >>

FallbackPrompt == << "Fallback used due to API error" >>

\* the ledger written on first run and by reset; it has no lastCheckedDate
\* field, which reads as `undefined || 0` (the epoch): date 0 here
FreshHistory ==
  [ lastCheckedCommit           |-> "",
    lastCheckedDate             |-> 0,
    currentCharacterDescription |-> CanonicalDescription,
    evolutionLevel              |-> 0,
    totalCommits                |-> 0,
    evolutionHistory            |-> << >> ]

\* the ledger copy-commit-history.js creates when it finds none.  It has no
\* evolutionHistory field either: checkForEvolution reads that as [] and
\* never writes the lack of it back with events, so it is [] here
CopyDefaultHistory ==
  [ lastCheckedCommit           |-> "",
    lastCheckedDate             |-> 0,
    currentCharacterDescription |-> "simple wanderer with plain clothes",
    evolutionLevel              |-> 0,
    totalCommits                |-> 0,
    evolutionHistory            |-> << >> ]

----------------------------------------------------------------------------
(* The environment: the commit feed, the generator, the asset generator *)

\* author dates of the commits of the feed, by index: the second commit was
\* authored before the first, the fourth at the same time as the first
AuthorDates == << 2, 1, 3, 2, 1 >>

Commit(i) ==
  [ sha     |-> "c" \o ToString(i),
    date    |-> AuthorDates[((i - 1) % Len(AuthorDates)) + 1],
    message |-> << "subject " \o ToString(i), "body" >> ]

AllCommits == { Commit(i) : i \in 1..MaxCommits }

\* every order in which the search API may return a set of commits
Orders(S) ==
  { s \in [1..Cardinality(S) -> S] : \A i, j \in 1..Cardinality(S) : i # j => s[i] # s[j] }

\* the raw texts the text-generation service may answer with
AITexts == { " noodle wizard, ladle wand\n" }

\* answers of the service that hold no description: nothing, or white space
BlankTexts == { "", "  \n" }

\* String.prototype.trim on the texts above
Trim(s) ==
  IF s = " noodle wizard, ladle wand\n" THEN "noodle wizard, ladle wand"
  ELSE IF s = "  \n" THEN ""
  ELSE s

\* the ways a call of the text-generation service can fail: the API key is
\* missing (thrown before the request), the request does not get through, the
\* service answers with an error status, or the body of the answer has no
\* content[0].text (the extraction throws a TypeError)
AIFailures == { "no_key", "transport", "service", "malformed" }

\* outcomes of the call of the text-generation service
AIResponses ==
  { [kind |-> k, text |-> ""] : k \in AIFailures }
    \cup { [kind |-> "ok", text |-> t] : t \in AITexts }

\* the outcomes above, and the answers that hold no description
AIResponsesOrBlank ==
  AIResponses \cup { [kind |-> "ok", text |-> t] : t \in BlankTexts }

\* outcomes of the asset generator: success, or a rejection (an exec error; a
\* missing walk frame and a failed copy reject the same way)
ExecOutcomes == { "ok", "exec_error" }

\* outcomes of fs.writeFileSync on the ledger: written, or an exception (the
\* file cannot be opened for writing) that leaves the file as it was
WriteOutcomes == { "ok", "write_error" }

\* descriptions given on the command line of generate-character.js
CliDescriptions == { "wizard with blue robe", "Knight Facing RIGHT, pot helm" }

Procs == { "check1", "check2", "sim", "gen", "reset", "force" }
CheckProcs == { "check1", "check2" }

----------------------------------------------------------------------------
(* Pure functions of the code *)

Min(a, b) == IF a <= b THEN a ELSE b

\* getLatestCommitsByUser: the items, or [] on an error or an empty answer
GetLatestCommitsByUser(resp) ==
  IF resp.ok /\ Len(resp.items) > 0 THEN resp.items ELSE << >>

\* the prompt embeds the current description and the level
PromptFor(currentDescription, evolutionLevel) ==
  << "improve", currentDescription, evolutionLevel >>

\* the try block of generateImprovedCharacterDescription: what it returns, or
\* that it threw (the key test, the awaited request and the extraction of the
\* text are all inside it)
TryGenerate(currentDescription, evolutionLevel, resp) ==
  IF resp.kind = "ok"
    THEN [ threw       |-> FALSE,
           prompt      |-> PromptFor(currentDescription, evolutionLevel),
           description |-> Trim(resp.text) ]
    ELSE [ threw |-> TRUE, prompt |-> << >>, description |-> "" ]

\* mutant: the fallback entry is picked by the level being reached
CatchGenerateNextLevel(evolutionLevel) ==
  [ prompt      |-> FallbackPrompt,
    description |->
      fallbackDescriptions[Min(evolutionLevel + 1, Len(fallbackDescriptions) - 1) + 1] ]

\* the catch block: the fallback entry min(level, 4) with the sentinel prompt
CatchGenerate(evolutionLevel) ==
  [ prompt      |-> FallbackPrompt,
    description |->
      fallbackDescriptions[Min(evolutionLevel, Len(fallbackDescriptions) - 1) + 1] ]

\* mutant: the text is extracted after the try block, so a malformed body
\* rejects the promise
GenerateUnguardedExtraction(currentDescription, evolutionLevel, resp) ==
  LET body == TryGenerate(currentDescription, evolutionLevel, resp)
      c    == CatchGenerate(evolutionLevel)
  IN  IF resp.kind = "malformed"
        THEN [ rejected |-> TRUE, prompt |-> << >>, description |-> "" ]
      ELSE IF body.threw
        THEN [ rejected |-> FALSE, prompt |-> c.prompt, description |-> c.description ]
      ELSE [ rejected |-> FALSE, prompt |-> body.prompt, description |-> body.description ]

\* generateImprovedCharacterDescription: the promise it returns, settled
GenerateImprovedCharacterDescription(currentDescription, evolutionLevel, resp) ==
  LET body == TryGenerate(currentDescription, evolutionLevel, resp)
      c    == CatchGenerate(evolutionLevel)
  IN  IF body.threw
        THEN [ rejected |-> FALSE, prompt |-> c.prompt, description |-> c.description ]
        ELSE [ rejected |-> FALSE, prompt |-> body.prompt, description |-> body.description ]

\* String.prototype.toLowerCase on the descriptions of this model (the others
\* are in lower case already)
ToLowerCase(d) ==
  IF d = CanonicalDescription
    THEN "noodle scout facing right, explorer tunic, wooden spoon, steaming backpack"
  ELSE IF d = "Knight Facing RIGHT, pot helm" THEN "knight facing right, pot helm"
  ELSE d

\* the lower-case texts of this model that have 'facing right' in them
WithFacingRight ==
  { ToLowerCase(CanonicalDescription), ForceInitialDescription,
    "knight facing right, pot helm" }
    \cup { fallbackDescriptions[i] : i \in 1..Len(fallbackDescriptions) }
    \cup { d \o " facing right" : d \in { Trim(t) : t \in AITexts \cup BlankTexts } \cup CliDescriptions }

\* characterDescription.toLowerCase().includes('facing right')
IncludesFacingRight(d) == ToLowerCase(d) \in WithFacingRight

\* mutant: the description goes to the asset generator as it came
FinalDescriptionAsGiven(characterDescription) == characterDescription

\* the description handed to the asset generator
FinalDescription(characterDescription) ==
  IF IncludesFacingRight(characterDescription)
    THEN characterDescription
    ELSE characterDescription \o " facing right"

\* commits.filter(...) of checkForEvolution: every commit on a first check,
\* else the commits authored after the time of the last check
NewCommitsOf(cs, hd) ==
  LET IsNew(c) == hd.lastCheckedCommit = "" \/ c.date > hd.lastCheckedDate
  IN  SelectSeq(cs, IsNew)

\* Array.prototype.sort by author date, oldest first (the sort is stable)
RECURSIVE InsertByDate(_, _)
InsertByDate(c, s) ==
  IF s = << >> THEN << c >>
  ELSE IF c.date < Head(s).date THEN << c >> \o s
  ELSE << Head(s) >> \o InsertByDate(c, Tail(s))

RECURSIVE SortByDate(_)
SortByDate(s) ==
  IF s = << >> THEN << >>
  ELSE InsertByDate(s[Len(s)], SortByDate(SubSeq(s, 1, Len(s) - 1)))

\* Array.prototype.slice(0, n)
Slice(s, n) == SubSeq(s, 1, Min(n, Len(s)))

----------------------------------------------------------------------------
(* State *)

VARIABLES
  ledger,         \* commit-history.json (COMMIT_HISTORY_FILE)
  published,      \* src/assets/commit-history.json (ASSETS_HISTORY_FILE)
  torn,           \* the ledger file holds only part of the document `ledger`
  feed,           \* the commits the search API currently knows
  now,            \* the wall clock read by new Date() and Date.now()
  ops,            \* entry-point invocations so far
  pc,             \* where each entry point is suspended
  historyData,    \* the ledger each entry point loaded
  commits,        \* the fetched commits
  newCommits,     \* newCommits (check), commitsToProcess (force)
  currentDesc,    \* currentDesc / currentDescription / characterDescription
  currentLevel,   \* currentLevel
  level,          \* the loop variable: level (check), i (force)
  newEvolutions,  \* newEvolutions (check), evolutionHistory (force)
  outcome,        \* the branch an entry point ended in (what it logs)
  io,             \* the external calls and file writes of the running invocation
  stale,          \* another entry point wrote the ledger since this one started
  settled         \* a check cycle ran to its end on the whole feed, and nothing
                  \* was invoked and no commit arrived since

vars ==
  << ledger, published, torn, feed, now, ops, pc, historyData, commits, newCommits,
     currentDesc, currentLevel, level, newEvolutions, outcome, io, stale, settled >>

locals == << historyData, commits, newCommits, currentDesc, currentLevel, level, newEvolutions >>

files == << ledger, published, torn >>

env == << feed, now >>

Init ==
  /\ ledger = FreshHistory
  /\ published = FreshHistory
  /\ torn = FALSE
  /\ feed = {}
  /\ now = 1
  /\ ops = 0
  /\ pc = [p \in Procs |-> "idle"]
  /\ historyData = [p \in Procs |-> FreshHistory]
  /\ commits = [p \in Procs |-> << >>]
  /\ newCommits = [p \in Procs |-> << >>]
  /\ currentDesc = [p \in Procs |-> ""]
  /\ currentLevel = [p \in Procs |-> 0]
  /\ level = [p \in Procs |-> 0]
  /\ newEvolutions = [p \in Procs |-> << >>]
  /\ outcome = [p \in Procs |-> ""]
  /\ io = [p \in Procs |-> << >>]
  /\ stale = [p \in Procs |-> FALSE]
  /\ settled = FALSE

\* the answers the commit search can give now: an error, or the feed in any order
FetchResponses ==
  { [ok |-> FALSE, items |-> << >>] } \cup { [ok |-> TRUE, items |-> s] : s \in Orders(feed) }

\* every other invocation in flight now holds a ledger that has been overwritten
MarkStale(p) ==
  [q \in Procs |-> IF q # p /\ pc[q] # "idle" THEN TRUE ELSE stale[q]]

\* an invocation begins: it counts, and runs to its first await
Begin(p, next, trace, wrote) ==
  /\ pc[p] = "idle"
  /\ ops < MaxOps
  /\ Cardinality({ q \in Procs : pc[q] # "idle" }) < MaxInFlight
  /\ ops' = ops + 1
  /\ pc' = [pc EXCEPT ![p] = next]
  /\ io' = [io EXCEPT ![p] = trace]
  /\ stale' = IF wrote THEN MarkStale(p) ELSE stale
  /\ outcome' = [outcome EXCEPT ![p] = ""]

\* an invocation begins and ends in its first stretch, in branch o
BeginFailed(p, o, trace, wrote) ==
  /\ pc[p] = "idle"
  /\ ops < MaxOps
  /\ Cardinality({ q \in Procs : pc[q] # "idle" }) < MaxInFlight
  /\ ops' = ops + 1
  /\ pc' = [pc EXCEPT ![p] = "done"]
  /\ io' = [io EXCEPT ![p] = trace]
  /\ stale' = IF wrote THEN MarkStale(p) ELSE stale
  /\ outcome' = [outcome EXCEPT ![p] = o]

\* an invocation ends in branch o
End(p, o) ==
  /\ pc' = [pc EXCEPT ![p] = "done"]
  /\ outcome' = [outcome EXCEPT ![p] = o]

----------------------------------------------------------------------------
(* checkForEvolution *)

UpdatedTotalCommits(hd, newCs) == hd.totalCommits + Len(newCs)

\* mutant: the batched policy of the README, one level for every three commits
NewEvolutionLevelEveryThree(hd, newCs) ==
  UpdatedTotalCommits(hd, newCs) \div README_COMMITS_PER_EVOLUTION

NewEvolutionLevel(hd, newCs) == UpdatedTotalCommits(hd, newCs) \div COMMITS_PER_EVOLUTION

\* mutant: a cycle raises the level by one however many commits it folded
EvolvedHistoryOneLevel(hd, cs, newCs, desc, evols, t) ==
  [ lastCheckedCommit           |-> cs[1].sha,
    lastCheckedDate             |-> t,
    currentCharacterDescription |-> desc,
    evolutionLevel              |-> hd.evolutionLevel + 1,
    totalCommits                |-> UpdatedTotalCommits(hd, newCs),
    evolutionHistory            |-> hd.evolutionHistory \o evols ]

\* updatedHistory of the evolving branch
EvolvedHistory(hd, cs, newCs, desc, evols, t) ==
  [ lastCheckedCommit           |-> cs[1].sha,
    lastCheckedDate             |-> t,
    currentCharacterDescription |-> desc,
    evolutionLevel              |-> NewEvolutionLevel(hd, newCs),
    totalCommits                |-> UpdatedTotalCommits(hd, newCs),
    evolutionHistory            |-> hd.evolutionHistory \o evols ]

\* mutant: the cursor-only branch counts every fetched commit
CursorOnlyHistoryCountsFetched(hd, cs, newCs, t) ==
  [ hd EXCEPT !.lastCheckedCommit = cs[1].sha,
              !.lastCheckedDate   = t,
              !.totalCommits      = hd.totalCommits + Len(cs) ]

\* updatedHistory of the branch that only moves the cursor
CursorOnlyHistory(hd, cs, newCs, t) ==
  [ hd EXCEPT !.lastCheckedCommit = cs[1].sha,
              !.lastCheckedDate   = t,
              !.totalCommits      = UpdatedTotalCommits(hd, newCs) ]

\* mutant: every event of a cycle carries the first level the cycle reaches
CheckEventFirstLevel(hd, lvl, commit, evols, res) ==
  [ level               |-> hd.evolutionLevel + 1,
    commitSha           |-> commit.sha,
    commitMessage       |-> Head(commit.message),
    commitDate          |-> commit.date,
    previousDescription |->
      IF lvl = hd.evolutionLevel + 1
        THEN hd.currentCharacterDescription
        ELSE evols[Len(evols)].newDescription,
    prompt              |-> res.prompt,
    newDescription      |-> res.description ]

\* the event pushed by one turn of the loop of checkForEvolution
CheckEvent(hd, lvl, commit, evols, res) ==
  [ level               |-> lvl,
    commitSha           |-> commit.sha,
    commitMessage       |-> Head(commit.message),
    commitDate          |-> commit.date,
    previousDescription |->
      IF lvl = hd.evolutionLevel + 1
        THEN hd.currentCharacterDescription
        ELSE evols[Len(evols)].newDescription,
    prompt              |-> res.prompt,
    newDescription      |-> res.description ]

\* the ledger is read, then the commit search is awaited; JSON.parse throws on
\* a truncated ledger and the catch ends the cycle
CheckStart(p) ==
  \* the two check cycles are alike: the second one only runs beside the first
  /\ p = "check2" => pc["check1"] # "idle"
  /\ IF torn
       THEN /\ BeginFailed(p, "error", << >>, FALSE)
            /\ UNCHANGED historyData
       ELSE /\ Begin(p, "fetch", << >>, FALSE)
            /\ historyData' = [historyData EXCEPT ![p] = ledger]
  /\ UNCHANGED << files, env, commits, newCommits, currentDesc, currentLevel, level,
                  newEvolutions, settled >>

\* mutant: an empty answer still stamps the time of the check on the ledger
CheckNoCommitsStamped(p) ==
  /\ ledger' = [historyData[p] EXCEPT !.lastCheckedDate = now + 1]
  /\ published' = ledger'
  /\ torn' = FALSE
  /\ io' = [io EXCEPT ![p] = @ \o << << "write" >>, << "copy" >> >>]
  /\ End(p, "no_commits")
  /\ settled' = FALSE
  /\ UNCHANGED << env, ops, locals, stale >>

\* the search answered with nothing: the cycle ends
CheckNoCommits(p) ==
  /\ End(p, "no_commits")
  /\ settled' = FALSE
  /\ UNCHANGED << files, env, ops, locals, io, stale >>

\* the fetched commits and the new ones among them are kept
Fetched(p, cs, newCs) ==
  /\ commits' = [commits EXCEPT ![p] = cs]
  /\ newCommits' = [newCommits EXCEPT ![p] = newCs]

\* the commits of s are the whole feed
WholeFeed(s) == { s[i] : i \in 1..Len(s) } = feed

\* the first fetched commit is the one last checked: the cycle ends
CheckNoNew(p, cs, newCs) ==
  /\ Fetched(p, cs, << >>)
  /\ End(p, "no_new")
  /\ settled' = WholeFeed(cs)
  /\ UNCHANGED << files, env, ops, historyData, currentDesc, currentLevel, level,
                  newEvolutions, io, stale >>

\* no new level is reached: the cursor is written and the copy refreshed
CheckCursorOnly(p, cs, newCs) ==
  /\ ledger' = CursorOnlyHistory(historyData[p], cs, newCs, now)
  /\ published' = ledger'
  /\ torn' = FALSE
  /\ io' = [io EXCEPT ![p] = @ \o << << "write" >>, << "copy" >> >>]
  /\ stale' = MarkStale(p)
  /\ Fetched(p, cs, newCs)
  /\ End(p, "cursor_only")
  /\ settled' = WholeFeed(cs)
  /\ UNCHANGED << env, ops, historyData, currentDesc, currentLevel, level, newEvolutions >>

\* a new level is reached: the loop starts, its first turn awaits the generator
CheckEnterLoop(p, cs, newCs) ==
  /\ Fetched(p, cs, newCs)
  /\ currentDesc' = [currentDesc EXCEPT ![p] = historyData[p].currentCharacterDescription]
  /\ currentLevel' = [currentLevel EXCEPT ![p] = historyData[p].evolutionLevel]
  /\ level' = [level EXCEPT ![p] = historyData[p].evolutionLevel + 1]
  /\ newEvolutions' = [newEvolutions EXCEPT ![p] = << >>]
  /\ pc' = [pc EXCEPT ![p] = "generate"]
  /\ UNCHANGED << files, env, ops, historyData, outcome, io, stale, settled >>

\* the write of the cursor-only branch throws: the catch logs, the cycle ends
CheckCursorWriteFailed(p, cs, newCs) ==
  /\ Fetched(p, cs, newCs)
  /\ End(p, "write_failed")
  /\ settled' = FALSE
  /\ UNCHANGED << files, env, ops, historyData, currentDesc, currentLevel, level,
                  newEvolutions, io, stale >>

\* the commit search answers; the code runs on to its next await or its end
CheckFetch(p) ==
  /\ pc[p] = "fetch"
  /\ \E resp \in FetchResponses, w \in WriteOutcomes :
       LET cs    == GetLatestCommitsByUser(resp)
           hd    == historyData[p]
           newCs == NewCommitsOf(cs, hd)
       IN  IF Len(cs) = 0 THEN CheckNoCommits(p)
           ELSE IF ~(hd.lastCheckedCommit = "" \/ cs[1].sha # hd.lastCheckedCommit)
             THEN CheckNoNew(p, cs, newCs)
           ELSE IF NewEvolutionLevel(hd, newCs) > hd.evolutionLevel
             THEN CheckEnterLoop(p, cs, newCs)
           ELSE IF w = "ok"
             THEN CheckCursorOnly(p, cs, newCs)
           ELSE CheckCursorWriteFailed(p, cs, newCs)

\* one turn of the loop: the generator answers, the event is pushed.  A level
\* with no commit behind it (newCommits[commitIndex] undefined) throws at
\* commit.sha and lands in the catch, and so would a rejection of the generator.
CheckGenerateWith(p, responses) ==
  /\ pc[p] = "generate"
  /\ \E resp \in responses :
       LET hd  == historyData[p]
           lvl == level[p]
           commitIndex == lvl - hd.evolutionLevel - 1
           res == GenerateImprovedCharacterDescription(currentDesc[p], currentLevel[p], resp)
       IN  /\ io' = [io EXCEPT ![p] =
                       Append(@, << "generate", currentDesc[p], currentLevel[p], res >>)]
           /\ IF res.rejected
                THEN /\ End(p, "error")
                     /\ settled' = FALSE
                     /\ UNCHANGED << currentDesc, currentLevel, level, newEvolutions >>
                ELSE IF commitIndex + 1 > Len(newCommits[p])
                THEN /\ currentDesc' = [currentDesc EXCEPT ![p] = res.description]
                     /\ currentLevel' = [currentLevel EXCEPT ![p] = lvl]
                     /\ End(p, "error")
                     /\ settled' = FALSE
                     /\ UNCHANGED << level, newEvolutions >>
                ELSE /\ currentDesc' = [currentDesc EXCEPT ![p] = res.description]
                     /\ currentLevel' = [currentLevel EXCEPT ![p] = lvl]
                     /\ newEvolutions' = [newEvolutions EXCEPT ![p] =
                          Append(@, CheckEvent(hd, lvl, newCommits[p][commitIndex + 1], @, res))]
                     /\ level' = [level EXCEPT ![p] = lvl + 1]
                     /\ pc' = [pc EXCEPT ![p] =
                          IF lvl + 1 <= NewEvolutionLevel(hd, newCommits[p])
                            THEN "generate" ELSE "publish"]
                     /\ UNCHANGED << outcome, settled >>
  /\ UNCHANGED << files, env, ops, historyData, commits, newCommits, stale >>

\* mutant: every turn of the loop evolves the description the cycle loaded
CheckGenerateUnchained(p) ==
  /\ pc[p] = "generate"
  /\ \E resp \in AIResponses :
       LET hd  == historyData[p]
           lvl == level[p]
           commitIndex == lvl - hd.evolutionLevel - 1
           res == GenerateImprovedCharacterDescription(
                    hd.currentCharacterDescription, currentLevel[p], resp)
       IN  /\ io' = [io EXCEPT ![p] =
                       Append(@, << "generate", hd.currentCharacterDescription, currentLevel[p], res >>)]
           /\ IF res.rejected
                THEN /\ End(p, "error")
                     /\ settled' = FALSE
                     /\ UNCHANGED << currentDesc, currentLevel, level, newEvolutions >>
                ELSE IF commitIndex + 1 > Len(newCommits[p])
                THEN /\ currentDesc' = [currentDesc EXCEPT ![p] = res.description]
                     /\ currentLevel' = [currentLevel EXCEPT ![p] = lvl]
                     /\ End(p, "error")
                     /\ settled' = FALSE
                     /\ UNCHANGED << level, newEvolutions >>
                ELSE /\ currentDesc' = [currentDesc EXCEPT ![p] = res.description]
                     /\ currentLevel' = [currentLevel EXCEPT ![p] = lvl]
                     /\ newEvolutions' = [newEvolutions EXCEPT ![p] =
                          Append(@, CheckEvent(hd, lvl, newCommits[p][commitIndex + 1], @, res))]
                     /\ level' = [level EXCEPT ![p] = lvl + 1]
                     /\ pc' = [pc EXCEPT ![p] =
                          IF lvl + 1 <= NewEvolutionLevel(hd, newCommits[p])
                            THEN "generate" ELSE "publish"]
                     /\ UNCHANGED << outcome, settled >>
  /\ UNCHANGED << files, env, ops, historyData, commits, newCommits, stale >>

\* one turn of the loop, the service failing or answering with a description
CheckGenerate(p) == CheckGenerateWith(p, AIResponses)

\* mutant: the ledger is written before generateCharacter is known to have succeeded
CheckPublishFailedAfterWrite(p) ==
  /\ io' = [io EXCEPT ![p] = @ \o << << "write" >>, << "copy" >>,
                                     << "publish", FinalDescription(currentDesc[p]) >> >>]
  /\ ledger' = EvolvedHistory(historyData[p], commits[p], newCommits[p],
                              currentDesc[p], newEvolutions[p], now)
  /\ published' = ledger'
  /\ torn' = FALSE
  /\ End(p, "publish_failed")
  /\ settled' = FALSE
  /\ UNCHANGED << env, ops, locals, stale >>

\* generateCharacter rejected: the catch logs, nothing is written
CheckPublishFailed(p) ==
  /\ io' = [io EXCEPT ![p] = Append(@, << "publish", FinalDescription(currentDesc[p]) >>)]
  /\ End(p, "publish_failed")
  /\ settled' = FALSE
  /\ UNCHANGED << files, env, ops, locals, stale >>

\* mutant: the asset generator is given the description the cycle loaded
CheckPublishedLoadedDescription(p) ==
  /\ io' = [io EXCEPT ![p] = @ \o
              << << "publish", FinalDescription(historyData[p].currentCharacterDescription) >>,
                 << "write" >>, << "copy" >> >>]
  /\ ledger' = EvolvedHistory(historyData[p], commits[p], newCommits[p],
                              currentDesc[p], newEvolutions[p], now)
  /\ published' = ledger'
  /\ torn' = FALSE
  /\ stale' = MarkStale(p)
  /\ End(p, "evolved")
  /\ settled' = WholeFeed(commits[p])
  /\ UNCHANGED << env, ops, locals >>

\* generateCharacter resolved: the ledger is written and copied to the assets
CheckPublished(p) ==
  /\ io' = [io EXCEPT ![p] = @ \o << << "publish", FinalDescription(currentDesc[p]) >>,
                                     << "write" >>, << "copy" >> >>]
  /\ ledger' = EvolvedHistory(historyData[p], commits[p], newCommits[p],
                              currentDesc[p], newEvolutions[p], now)
  /\ published' = ledger'
  /\ torn' = FALSE
  /\ stale' = MarkStale(p)
  /\ End(p, "evolved")
  /\ settled' = WholeFeed(commits[p])
  /\ UNCHANGED << env, ops, locals >>

\* the process dies inside the fs.writeFileSync of the evolving branch: the
\* file was opened for writing, which empties it, and the document got there
\* in part or in whole; nothing after the write runs
CheckCrashInWrite(p) ==
  /\ pc[p] = "publish"
  /\ \E whole \in BOOLEAN : torn' = ~whole
  /\ ledger' = EvolvedHistory(historyData[p], commits[p], newCommits[p],
                              currentDesc[p], newEvolutions[p], now)
  /\ io' = [io EXCEPT ![p] = @ \o << << "publish", FinalDescription(currentDesc[p]) >>,
                                     << "write" >> >>]
  /\ stale' = MarkStale(p)
  /\ End(p, "crashed")
  /\ settled' = FALSE
  /\ UNCHANGED << published, env, ops, locals >>

\* mutant: the write of the evolving branch is made after the try block, so
\* its exception rejects the promise of checkForEvolution
CheckWriteFailedUncaught(p) ==
  /\ io' = [io EXCEPT ![p] = Append(@, << "publish", FinalDescription(currentDesc[p]) >>)]
  /\ End(p, "rejected")
  /\ settled' = FALSE
  /\ UNCHANGED << files, env, ops, locals, stale >>

\* generateCharacter resolved but the write of the ledger throws: the catch
\* logs, the cycle ends
CheckWriteFailed(p) ==
  /\ io' = [io EXCEPT ![p] = Append(@, << "publish", FinalDescription(currentDesc[p]) >>)]
  /\ End(p, "write_failed")
  /\ settled' = FALSE
  /\ UNCHANGED << files, env, ops, locals, stale >>

\* the asset generator finishes
CheckPublish(p) ==
  /\ pc[p] = "publish"
  /\ \E out \in ExecOutcomes, w \in WriteOutcomes :
       IF out # "ok" THEN CheckPublishFailed(p)
       ELSE IF w = "ok" THEN CheckPublished(p)
       ELSE CheckWriteFailed(p)

\* the caller of an entry point has seen it end; its locals are gone
Return(p) ==
  /\ pc[p] = "done"
  /\ pc' = [pc EXCEPT ![p] = "idle"]
  /\ historyData' = [historyData EXCEPT ![p] = FreshHistory]
  /\ commits' = [commits EXCEPT ![p] = << >>]
  /\ newCommits' = [newCommits EXCEPT ![p] = << >>]
  /\ currentDesc' = [currentDesc EXCEPT ![p] = ""]
  /\ currentLevel' = [currentLevel EXCEPT ![p] = 0]
  /\ level' = [level EXCEPT ![p] = 0]
  /\ newEvolutions' = [newEvolutions EXCEPT ![p] = << >>]
  /\ outcome' = [outcome EXCEPT ![p] = ""]
  /\ io' = [io EXCEPT ![p] = << >>]
  /\ stale' = [stale EXCEPT ![p] = FALSE]
  /\ UNCHANGED << files, env, ops, settled >>

----------------------------------------------------------------------------
(* resetEvolutionHistory *)

\* the fresh ledger is written and copied, then generateCharacter is awaited
ResetStart(p) ==
  /\ p = "reset"
  /\ Begin(p, "publish", << << "write" >>, << "copy" >> >>, TRUE)
  /\ ledger' = FreshHistory
  /\ published' = ledger'
  /\ torn' = FALSE
  /\ settled' = FALSE
  /\ UNCHANGED << env, locals >>

\* the process dies inside the fs.writeFileSync of resetEvolutionHistory
ResetCrashInWrite(p) ==
  /\ p = "reset"
  /\ BeginFailed(p, "crashed", << << "write" >> >>, TRUE)
  /\ \E whole \in BOOLEAN : torn' = ~whole
  /\ ledger' = FreshHistory
  /\ settled' = FALSE
  /\ UNCHANGED << published, env, locals >>

\* the asset generator finishes: reset returns true, or false from its catch
ResetPublish(p) ==
  /\ p = "reset"
  /\ pc[p] = "publish"
  /\ \E out \in ExecOutcomes :
       End(p, IF out = "ok" THEN "true" ELSE "false")
  /\ io' = [io EXCEPT ![p] = Append(@, << "publish", FinalDescription(CanonicalDescription) >>)]
  /\ UNCHANGED << files, env, ops, locals, stale, settled >>

----------------------------------------------------------------------------
(* simulateNewCommit (test-evolution.js) *)

\* the event pushed by simulateNewCommit: hd is historyData after its level
\* and description were updated
SimEvent(hd, res, t) ==
  [ level               |-> hd.evolutionLevel,
    commitSha           |-> "test-commit-" \o ToString(t),
    commitMessage       |-> "Test evolution",
    commitDate          |-> t,
    previousDescription |-> hd.currentCharacterDescription,
    prompt              |-> res.prompt,
    newDescription      |-> res.description ]

\* mutant: the single step counts its commit but keeps the level
SimHistoryLevelKept(hd, res, t) ==
  LET updated == [ hd EXCEPT !.currentCharacterDescription = res.description ]
  IN  [ updated EXCEPT !.evolutionHistory = Append(@, SimEvent(updated, res, t)) ]

\* historyData as simulateNewCommit writes it back
SimHistory(hd, res, t) ==
  LET updated == [ hd EXCEPT !.currentCharacterDescription = res.description,
                             !.evolutionLevel = @ + 1 ]
  IN  [ updated EXCEPT !.evolutionHistory = Append(@, SimEvent(updated, res, t)) ]

\* the ledger is read and its totalCommits incremented, then the generator is
\* awaited; JSON.parse throws on a truncated ledger and the catch ends the run
SimStart(p) ==
  /\ p = "sim"
  /\ IF torn
       THEN /\ BeginFailed(p, "error", << >>, FALSE)
            /\ UNCHANGED historyData
       ELSE /\ Begin(p, "generate", << >>, FALSE)
            /\ historyData' = [historyData EXCEPT ![p] =
                                 [ledger EXCEPT !.totalCommits = @ + 1]]
  /\ settled' = FALSE
  /\ UNCHANGED << files, env, commits, newCommits, currentDesc, currentLevel, level,
                  newEvolutions >>

\* the generator answers: the ledger is written (not copied), then the asset
\* generator is awaited; a rejection of the generator would land in the catch
SimGenerate(p) ==
  /\ p = "sim"
  /\ pc[p] = "generate"
  /\ \E resp \in AIResponses :
       LET hd  == historyData[p]
           res == GenerateImprovedCharacterDescription(
                    hd.currentCharacterDescription, hd.evolutionLevel, resp)
           call == << "generate", hd.currentCharacterDescription, hd.evolutionLevel, res >>
       IN  IF res.rejected
             THEN /\ io' = [io EXCEPT ![p] = Append(@, call)]
                  /\ End(p, "error")
                  /\ UNCHANGED << ledger, torn, historyData, currentDesc, stale >>
             ELSE /\ io' = [io EXCEPT ![p] = @ \o << call, << "write" >> >>]
                  /\ historyData' = [historyData EXCEPT ![p] = SimHistory(hd, res, now)]
                  /\ ledger' = SimHistory(hd, res, now)
                  /\ torn' = FALSE
                  /\ currentDesc' = [currentDesc EXCEPT ![p] = res.description]
                  /\ stale' = MarkStale(p)
                  /\ pc' = [pc EXCEPT ![p] = "publish"]
                  /\ UNCHANGED outcome
  /\ UNCHANGED << published, env, ops, commits, newCommits, currentLevel, level,
                  newEvolutions, settled >>

\* the asset generator finishes
SimPublish(p) ==
  /\ p = "sim"
  /\ pc[p] = "publish"
  /\ \E out \in ExecOutcomes :
       End(p, IF out = "ok" THEN "complete" ELSE "error")
  /\ io' = [io EXCEPT ![p] = Append(@, << "publish", FinalDescription(currentDesc[p]) >>)]
  /\ UNCHANGED << files, env, ops, locals, stale, settled >>

----------------------------------------------------------------------------
(* generate-character.js *)

\* the description of the command line, with " facing right" added when it
\* lacks it; generateCharacter is awaited
GenStart(p) ==
  /\ p = "gen"
  /\ Begin(p, "publish", << >>, FALSE)
  /\ \E d \in CliDescriptions :
       currentDesc' = [currentDesc EXCEPT ![p] =
                         IF IncludesFacingRight(d) THEN d ELSE d \o " facing right"]
  /\ settled' = FALSE
  /\ UNCHANGED << files, env, historyData, commits, newCommits, currentLevel, level,
                  newEvolutions >>

\* mutant: the manual generation counts as an evolution
GenHistoryAsLevel(hd, characterDescription) ==
  [ hd EXCEPT !.currentCharacterDescription = characterDescription,
              !.evolutionLevel = @ + 1 ]

\* the ledger as the .then callback rewrites it
GenHistory(hd, characterDescription) ==
  [ hd EXCEPT !.currentCharacterDescription = characterDescription ]

\* the asset generator finishes: on success the ledger is read, given the
\* description, written and copied (a ledger that does not parse, or that
\* cannot be written, is left alone)
GenPublish(p) ==
  /\ p = "gen"
  /\ pc[p] = "publish"
  /\ \E out \in ExecOutcomes, w \in WriteOutcomes :
       IF out = "ok" /\ ~torn /\ w = "ok"
         THEN /\ ledger' = GenHistory(ledger, currentDesc[p])
              /\ published' = ledger'
              /\ torn' = FALSE
              /\ io' = [io EXCEPT ![p] = @ \o
                          << << "publish", FinalDescription(currentDesc[p]) >>,
                             << "write" >>, << "copy" >> >>]
              /\ stale' = MarkStale(p)
              /\ End(p, "completed")
         ELSE /\ io' = [io EXCEPT ![p] =
                          Append(@, << "publish", FinalDescription(currentDesc[p]) >>)]
              /\ End(p, IF out = "ok" THEN "update_error" ELSE "error")
              /\ UNCHANGED << files, stale >>
  /\ UNCHANGED << env, ops, locals, settled >>

----------------------------------------------------------------------------
(* forceEvolution (force-evolution.js) *)

\* the event pushed by one turn of the loop of forceEvolution
ForceEvent(i, commit, currentDescription, res) ==
  [ level               |-> i + 1,
    commitSha           |-> commit.sha,
    commitMessage       |-> Head(commit.message),
    commitDate          |-> commit.date,
    previousDescription |-> currentDescription,
    prompt              |-> res.prompt,
    newDescription      |-> res.description ]

\* updatedHistory of forceEvolution
ForcedHistory(commitsToProcess, currentDescription, evolutionHistory, t) ==
  [ lastCheckedCommit           |-> commitsToProcess[Len(commitsToProcess)].sha,
    lastCheckedDate             |-> t,
    currentCharacterDescription |-> currentDescription,
    evolutionLevel              |-> Len(commitsToProcess),
    totalCommits                |-> Len(commitsToProcess),
    evolutionHistory            |-> evolutionHistory ]

\* the commit search is awaited
ForceStart(p) ==
  /\ p = "force"
  /\ Begin(p, "fetch", << >>, FALSE)
  /\ settled' = FALSE
  /\ UNCHANGED << files, env, locals >>

\* the search answers: nothing to do, or the commits are sorted oldest first,
\* cut to the first six, and the loop starts
ForceFetch(p) ==
  /\ p = "force"
  /\ pc[p] = "fetch"
  /\ \E resp \in FetchResponses :
       LET cs == GetLatestCommitsByUser(resp)
       IN  IF Len(cs) = 0
             THEN /\ End(p, "no_commits")
                  /\ UNCHANGED locals
             ELSE /\ commits' = [commits EXCEPT ![p] = SortByDate(cs)]
                  /\ newCommits' = [newCommits EXCEPT ![p] =
                                      Slice(SortByDate(cs), FORCE_MAX_COMMITS)]
                  /\ currentDesc' = [currentDesc EXCEPT ![p] = ForceInitialDescription]
                  /\ currentLevel' = [currentLevel EXCEPT ![p] = 0]
                  /\ level' = [level EXCEPT ![p] = 0]
                  /\ newEvolutions' = [newEvolutions EXCEPT ![p] = << >>]
                  /\ pc' = [pc EXCEPT ![p] = "generate"]
                  /\ UNCHANGED << historyData, outcome >>
  /\ UNCHANGED << files, env, ops, io, stale, settled >>

\* one turn of the loop: the generator answers, the event is pushed; a
\* rejection of the generator would land in the catch
ForceGenerate(p) ==
  /\ p = "force"
  /\ pc[p] = "generate"
  /\ \E resp \in AIResponses :
       LET i   == level[p]
           res == GenerateImprovedCharacterDescription(currentDesc[p], currentLevel[p], resp)
       IN  /\ io' = [io EXCEPT ![p] =
                       Append(@, << "generate", currentDesc[p], currentLevel[p], res >>)]
           /\ IF res.rejected
                THEN /\ End(p, "false")
                     /\ UNCHANGED << newEvolutions, currentDesc, currentLevel, level >>
                ELSE /\ newEvolutions' = [newEvolutions EXCEPT ![p] =
                          Append(@, ForceEvent(i, newCommits[p][i + 1], currentDesc[p], res))]
                     /\ currentDesc' = [currentDesc EXCEPT ![p] = res.description]
                     /\ currentLevel' = [currentLevel EXCEPT ![p] = i + 1]
                     /\ level' = [level EXCEPT ![p] = i + 1]
                     /\ pc' = [pc EXCEPT ![p] =
                          IF i + 1 < Len(newCommits[p]) THEN "generate" ELSE "publish"]
                     /\ UNCHANGED outcome
  /\ UNCHANGED << files, env, ops, historyData, commits, newCommits, stale, settled >>

\* mutant: the rebuilt ledger is written before the asset generator is
\* awaited, as simulateNewCommit does
ForcePublishAfterWrite(p) ==
  /\ p = "force"
  /\ pc[p] = "publish"
  /\ ledger' = ForcedHistory(newCommits[p], currentDesc[p], newEvolutions[p], now)
  /\ torn' = FALSE
  /\ stale' = MarkStale(p)
  /\ \E out \in ExecOutcomes :
       IF out = "ok"
         THEN /\ published' = ledger'
              /\ io' = [io EXCEPT ![p] = @ \o
                          << << "write" >>,
                             << "publish", FinalDescription(currentDesc[p]) >>,
                             << "copy" >> >>]
              /\ End(p, "true")
         ELSE /\ io' = [io EXCEPT ![p] = @ \o
                          << << "write" >>,
                             << "publish", FinalDescription(currentDesc[p]) >> >>]
              /\ End(p, "false")
              /\ UNCHANGED published
  /\ UNCHANGED << env, ops, locals, settled >>

\* the asset generator finishes: on success the whole ledger is replaced and
\* copied; its rejection, or an exception of the write, lands in the catch
ForcePublish(p) ==
  /\ p = "force"
  /\ pc[p] = "publish"
  /\ \E out \in ExecOutcomes, w \in WriteOutcomes :
       IF out = "ok" /\ w = "ok"
         THEN /\ ledger' = ForcedHistory(newCommits[p], currentDesc[p], newEvolutions[p], now)
              /\ published' = ledger'
              /\ torn' = FALSE
              /\ io' = [io EXCEPT ![p] = @ \o
                          << << "publish", FinalDescription(currentDesc[p]) >>,
                             << "write" >>, << "copy" >> >>]
              /\ stale' = MarkStale(p)
              /\ End(p, "true")
         ELSE /\ io' = [io EXCEPT ![p] =
                          Append(@, << "publish", FinalDescription(currentDesc[p]) >>)]
              /\ End(p, "false")
              /\ UNCHANGED << files, stale >>
  /\ UNCHANGED << env, ops, locals, settled >>

----------------------------------------------------------------------------
(* The environment *)

\* a commit reaches the search index
AddCommit ==
  /\ \E c \in AllCommits \ feed : feed' = feed \cup {c}
  /\ settled' = FALSE
  /\ UNCHANGED << files, now, ops, pc, locals, outcome, io, stale >>

\* time passes
Tick ==
  /\ now < MaxTime
  /\ now' = now + 1
  /\ UNCHANGED << files, feed, ops, pc, locals, outcome, io, stale, settled >>

----------------------------------------------------------------------------
(* Specifications *)

\* an entry point is invoked
Invoke ==
  \/ \E p \in CheckProcs : CheckStart(p)
  \/ \E p \in Procs : ResetStart(p)
  \/ \E p \in Procs : SimStart(p)
  \/ \E p \in Procs : GenStart(p)
  \/ \E p \in Procs : ForceStart(p)

\* a suspended entry point runs on
Resume ==
  \/ \E p \in CheckProcs : CheckFetch(p)
  \/ \E p \in CheckProcs : CheckGenerate(p)
  \/ \E p \in CheckProcs : CheckPublish(p)
  \/ \E p \in Procs : ResetPublish(p)
  \/ \E p \in Procs : SimGenerate(p)
  \/ \E p \in Procs : SimPublish(p)
  \/ \E p \in Procs : GenPublish(p)
  \/ \E p \in Procs : ForceFetch(p)
  \/ \E p \in Procs : ForceGenerate(p)
  \/ \E p \in Procs : ForcePublish(p)
  \/ \E p \in Procs : Return(p)

\* no entry point is running
Quiet == \A p \in Procs : pc[p] = "idle"

Next == Invoke \/ Resume \/ AddCommit \/ Tick

\* entry points run one at a time, each to its end before the next is invoked
NextSeq == (Quiet /\ Invoke) \/ Resume \/ AddCommit \/ Tick

\* only check cycles run (the scheduler, the startup check, the manual check)
NextChecks ==
  \/ \E p \in CheckProcs : CheckStart(p)
  \/ \E p \in CheckProcs : CheckFetch(p)
  \/ \E p \in CheckProcs : CheckGenerate(p)
  \/ \E p \in CheckProcs : CheckPublish(p)
  \/ \E p \in CheckProcs : Return(p)
  \/ AddCommit
  \/ Tick

\* entry points overlap freely
Spec == Init /\ [][Next]_vars

SpecChecks == Init /\ [][NextChecks]_vars

\* node reset-evolution.js: requiring the engine starts a check cycle (and the
\* hourly ones), then resetEvolutionHistory is called
NextReset ==
  \/ \E p \in CheckProcs : CheckStart(p)
  \/ \E p \in CheckProcs : CheckFetch(p)
  \/ \E p \in CheckProcs : CheckGenerate(p)
  \/ \E p \in CheckProcs : CheckPublish(p)
  \/ \E p \in Procs : ResetStart(p)
  \/ \E p \in Procs : ResetPublish(p)
  \/ \E p \in Procs : Return(p)
  \/ AddCommit
  \/ Tick

SpecReset == Init /\ [][NextReset]_vars

SpecSeq == Init /\ [][NextSeq]_vars

\* the first script to run on a checkout with no ledger creates it: the
\* engine (required by every other script) or copy-commit-history.js; both
\* then copy it to the assets
InitFirstRun ==
  /\ ledger \in { FreshHistory, CopyDefaultHistory }
  /\ published = ledger
  /\ torn = FALSE
  /\ feed = {}
  /\ now = 1
  /\ ops = 0
  /\ pc = [p \in Procs |-> "idle"]
  /\ historyData = [p \in Procs |-> FreshHistory]
  /\ commits = [p \in Procs |-> << >>]
  /\ newCommits = [p \in Procs |-> << >>]
  /\ currentDesc = [p \in Procs |-> ""]
  /\ currentLevel = [p \in Procs |-> 0]
  /\ level = [p \in Procs |-> 0]
  /\ newEvolutions = [p \in Procs |-> << >>]
  /\ outcome = [p \in Procs |-> ""]
  /\ io = [p \in Procs |-> << >>]
  /\ stale = [p \in Procs |-> FALSE]
  /\ settled = FALSE

\* check cycles, resets and force replays
NextRebuild ==
  \/ \E p \in CheckProcs : CheckStart(p)
  \/ \E p \in CheckProcs : CheckFetch(p)
  \/ \E p \in CheckProcs : CheckGenerate(p)
  \/ \E p \in CheckProcs : CheckPublish(p)
  \/ \E p \in Procs : ResetStart(p)
  \/ \E p \in Procs : ResetPublish(p)
  \/ \E p \in Procs : ForceStart(p)
  \/ \E p \in Procs : ForceFetch(p)
  \/ \E p \in Procs : ForceGenerate(p)
  \/ \E p \in Procs : ForcePublish(p)
  \/ \E p \in Procs : Return(p)
  \/ AddCommit
  \/ Tick

SpecFirstRun == InitFirstRun /\ [][NextRebuild]_vars

\* check cycles and resets whose process may be killed while it writes the ledger
NextCrash ==
  \/ \E p \in CheckProcs : CheckStart(p)
  \/ \E p \in CheckProcs : CheckFetch(p)
  \/ \E p \in CheckProcs : CheckGenerate(p)
  \/ \E p \in CheckProcs : CheckPublish(p)
  \/ \E p \in CheckProcs : CheckCrashInWrite(p)
  \/ \E p \in Procs : ResetStart(p)
  \/ \E p \in Procs : ResetPublish(p)
  \/ \E p \in Procs : ResetCrashInWrite(p)
  \/ \E p \in Procs : Return(p)
  \/ AddCommit
  \/ Tick

SpecCrash == Init /\ [][NextCrash]_vars

\* the ledger after n runs of simulateNewCommit on the first-run ledger, the
\* generator failing each time
RECURSIVE GrownLedger(_)
GrownLedger(n) ==
  IF n = 0 THEN FreshHistory
  ELSE LET hd  == [GrownLedger(n - 1) EXCEPT !.totalCommits = @ + 1]
           res == GenerateImprovedCharacterDescription(
                    hd.currentCharacterDescription, hd.evolutionLevel,
                    [kind |-> "transport", text |-> ""])
       IN  SimHistory(hd, res, 1)

\* the state after some runs of test-evolution.js (which never copies the
\* ledger to the assets)
InitGrown ==
  /\ ledger \in { GrownLedger(n) : n \in 0..MaxGrown }
  /\ published = FreshHistory
  /\ torn = FALSE
  /\ feed = {}
  /\ now = 1
  /\ ops = 0
  /\ pc = [p \in Procs |-> "idle"]
  /\ historyData = [p \in Procs |-> FreshHistory]
  /\ commits = [p \in Procs |-> << >>]
  /\ newCommits = [p \in Procs |-> << >>]
  /\ currentDesc = [p \in Procs |-> ""]
  /\ currentLevel = [p \in Procs |-> 0]
  /\ level = [p \in Procs |-> 0]
  /\ newEvolutions = [p \in Procs |-> << >>]
  /\ outcome = [p \in Procs |-> ""]
  /\ io = [p \in Procs |-> << >>]
  /\ stale = [p \in Procs |-> FALSE]
  /\ settled = FALSE

\* check cycles on a ledger that has been through up to MaxGrown single steps
SpecGrown == InitGrown /\ [][NextChecks]_vars

\* node reset-evolution.js on a ledger that has been through some single
\* steps, with commits already in the feed
InitResetScript ==
  /\ ledger \in { GrownLedger(n) : n \in 0..MaxGrown }
  /\ published = FreshHistory
  /\ torn = FALSE
  /\ feed \in SUBSET AllCommits
  /\ now = 1
  /\ ops = 0
  /\ pc = [p \in Procs |-> "idle"]
  /\ historyData = [p \in Procs |-> FreshHistory]
  /\ commits = [p \in Procs |-> << >>]
  /\ newCommits = [p \in Procs |-> << >>]
  /\ currentDesc = [p \in Procs |-> ""]
  /\ currentLevel = [p \in Procs |-> 0]
  /\ level = [p \in Procs |-> 0]
  /\ newEvolutions = [p \in Procs |-> << >>]
  /\ outcome = [p \in Procs |-> ""]
  /\ io = [p \in Procs |-> << >>]
  /\ stale = [p \in Procs |-> FALSE]
  /\ settled = FALSE

\* one run of reset-evolution.js: requiring the engine starts a check cycle,
\* which reads the ledger and awaits the commit search; resetEvolutionHistory
\* is called in the same turn, before any await of that cycle can settle; the
\* timer of the engine starts further cycles.  No commit reaches the feed
\* while the script runs.
NextResetScript ==
  \/ \E p \in CheckProcs : CheckStart(p)
  \/ pc["reset"] # "idle" /\ \E p \in CheckProcs : CheckFetch(p)
  \/ pc["reset"] # "idle" /\ \E p \in CheckProcs : CheckGenerate(p)
  \/ pc["reset"] # "idle" /\ \E p \in CheckProcs : CheckPublish(p)
  \/ pc["check1"] = "fetch" /\ ResetStart("reset")
  \/ ResetPublish("reset")
  \/ \E p \in CheckProcs : Return(p)
  \/ Tick

SpecResetScript == InitResetScript /\ [][NextResetScript]_vars

\* one run of evolve-character.js: requiring the engine starts a check cycle
\* (and the engine's timer); the script then calls checkForEvolution itself
\* in the same turn, before any await of the first cycle can settle; the
\* cycles run on, and the two timers start further ones
NextEvolveScript ==
  \/ ops = 0 /\ CheckStart("check1")
  \/ ops = 1 /\ pc["check1"] = "fetch" /\ CheckStart("check2")
  \/ ops >= 2 /\ \E p \in CheckProcs : CheckStart(p)
  \/ ops >= 2 /\ \E p \in CheckProcs : CheckFetch(p)
  \/ ops >= 2 /\ \E p \in CheckProcs : CheckGenerate(p)
  \/ ops >= 2 /\ \E p \in CheckProcs : CheckPublish(p)
  \/ \E p \in CheckProcs : Return(p)
  \/ AddCommit
  \/ Tick

SpecEvolveScript == Init /\ [][NextEvolveScript]_vars

\* check cycles, the service failing, answering with a description, or
\* answering with nothing or with white space only
NextBlankAnswers ==
  \/ \E p \in CheckProcs : CheckStart(p)
  \/ \E p \in CheckProcs : CheckFetch(p)
  \/ \E p \in CheckProcs : CheckGenerateWith(p, AIResponsesOrBlank)
  \/ \E p \in CheckProcs : CheckPublish(p)
  \/ \E p \in CheckProcs : Return(p)
  \/ AddCommit
  \/ Tick

SpecBlankAnswers == Init /\ [][NextBlankAnswers]_vars

\* setInterval(checkForEvolution, COMMIT_CHECK_INTERVAL): the timer fires for
\* as long as the process lives, so these cycles are not counted in ops; a
\* cycle starts when the one before has ended (an hour against seconds).  The
\* ledger is read, then the commit search is awaited.
ScheduledCheck(p) ==
  /\ p = "check1"
  /\ Quiet
  /\ ledger.totalCommits < MaxGrown
  /\ pc' = [pc EXCEPT ![p] = "fetch"]
  /\ io' = [io EXCEPT ![p] = << >>]
  /\ outcome' = [outcome EXCEPT ![p] = ""]
  /\ historyData' = [historyData EXCEPT ![p] = ledger]
  /\ UNCHANGED << files, env, ops, commits, newCommits, currentDesc, currentLevel,
                  level, newEvolutions, stale, settled >>

\* a step of the scheduled cycle
LiveCycle ==
  \/ ScheduledCheck("check1")
  \/ CheckFetch("check1")
  \/ CheckGenerate("check1")
  \/ CheckPublish("check1")
  \/ Return("check1")

NextLive == LiveCycle \/ AddCommit \/ Tick

\* the scheduler keeps firing and every await of a cycle settles
SpecLive == Init /\ [][NextLive]_vars /\ WF_vars(LiveCycle)

TypeOK ==
  /\ pc \in [Procs -> {"idle", "fetch", "generate", "publish", "done"}]
  /\ ops \in 0..MaxOps
  /\ now \in 1..MaxTime
  /\ feed \subseteq AllCommits
  /\ torn \in BOOLEAN

----------------------------------------------------------------------------
(* Vocabulary of the claims *)

History == ledger.evolutionHistory

ShasOf(h) == { h[i].commitSha : i \in 1..Len(h) }

\* how many events of h are for commit sha
EventsFor(h, sha) == Cardinality({ i \in 1..Len(h) : h[i].commitSha = sha })

\* the position of a commit of the feed in the order of its ids
CommitNo(sha) == CHOOSE i \in 1..MaxCommits : Commit(i).sha = sha

\* p's invocation made no write to the ledger and no copy to the assets
NoWrite(p) == \A i \in 1..Len(io[p]) : io[p][i][1] \notin { "write", "copy" }

\* the descriptions p handed to the asset generator
Published(p) == SelectSeq(io[p], LAMBDA e : e[1] = "publish")

\* p's calls of the description generator
Generated(p) == SelectSeq(io[p], LAMBDA e : e[1] = "generate")

\* p has just ended in branch o, and the ledger is as p left it
Ended(p, o) == pc[p] = "done" /\ outcome[p] = o /\ ~stale[p]

----------------------------------------------------------------------------
(* Claims *)

\* C1 (Dedup): after any sequence or interleaving of check cycles the persisted
\* evolutionHistory never holds two events with the same commit id.
C1_Dedup ==
  \A i, j \in 1..Len(History) : i # j => History[i].commitSha # History[j].commitSha

\* C2 (Exactly once per new commit): after a check cycle whose fetch was not
\* empty and whose asset generation succeeded, every fetched commit whose id
\* was not in the history before has exactly one event in the persisted
\* history, and the history grew by the number of those commits.
C2_ExactlyOnce ==
  \A p \in CheckProcs :
    Ended(p, "evolved") =>
      LET before == historyData[p].evolutionHistory
          fresh  == { commits[p][i].sha : i \in 1..Len(commits[p]) } \ ShasOf(before)
      IN  /\ \A sha \in fresh : EventsFor(History, sha) = 1
          /\ Len(History) = Len(before) + Cardinality(fresh)

\* C3 (Atomic rollback): a check cycle whose asset generation fails writes
\* neither the ledger nor the published copy, however many commits it folded:
\* the ledger after the cycle is the ledger the cycle loaded.
C3_AtomicRollback ==
  \A p \in CheckProcs :
    (pc[p] = "done" /\ outcome[p] = "publish_failed") =>
      /\ NoWrite(p)
      /\ ~stale[p] => ledger = historyData[p]

\* a cycle that folded two commits and then failed to publish has ended
C3_Witness ==
  \E p \in CheckProcs :
    /\ Ended(p, "publish_failed")
    /\ Len(newEvolutions[p]) >= 2
    /\ Len(Generated(p)) >= 2

\* C4 (Ordering): the events one check cycle appends are in ascending order of
\* their commits' author dates (ties by commit id), whatever the fetch order.
C4_Ordering ==
  \A p \in CheckProcs :
    Ended(p, "evolved") =>
      LET n0 == Len(historyData[p].evolutionHistory)
      IN  \A i, j \in (n0 + 1)..Len(History) :
            i < j =>
              \/ History[i].commitDate < History[j].commitDate
              \/ /\ History[i].commitDate = History[j].commitDate
                 /\ CommitNo(History[i].commitSha) <= CommitNo(History[j].commitSha)

\* C5 (Idempotence): a check cycle that runs right after a check cycle that
\* ran to its end, with no commit added to the feed in between, leaves the
\* ledger as the first one left it, cursor included.
C5_Idempotence ==
  [][ \A p \in CheckProcs :
        (settled /\ pc[p] # "done" /\ pc'[p] = "done") => ledger' = historyData[p] ]_vars

\* C6 (Chaining): in every persisted ledger each event's newDescription is the
\* next event's previousDescription.
C6_Chaining ==
  \A k \in 1..(Len(History) - 1) :
    History[k].newDescription = History[k + 1].previousDescription

\* C7: in every persisted ledger currentCharacterDescription is the last
\* event's newDescription, or the canonical initial description when the
\* history is empty.
C7_CurrentIsLast ==
  ledger.currentCharacterDescription =
    IF Len(History) = 0 THEN CanonicalDescription
    ELSE History[Len(History)].newDescription

\* C8: in every persisted ledger, and in its published copy, evolutionLevel is
\* the number of events of evolutionHistory.
C8_LevelIsLength ==
  /\ ledger.evolutionLevel = Len(ledger.evolutionHistory)
  /\ published.evolutionLevel = Len(published.evolutionHistory)

\* check cycles, the manual single step and more have appended events
C8_Witness ==
  /\ Len(History) >= 3
  /\ \E i, j \in 1..Len(History) :
       /\ History[i].commitMessage = "Test evolution"
       /\ History[j].commitMessage # "Test evolution"

\* C9 (Reset canonicality): when resetEvolutionHistory returns, whether or not
\* its asset generation succeeded, the persisted ledger is the canonical fresh
\* ledger, and the asset generator was called once, with the canonical
\* description.
C9_ResetCanonical ==
  [][ (pc["reset"] # "done" /\ pc'["reset"] = "done") =>
        /\ ledger' = FreshHistory
        /\ SelectSeq(io'["reset"], LAMBDA e : e[1] = "publish")
             = << << "publish", CanonicalDescription >> >> ]_vars

\* C10 (Transient source failure): a check cycle whose fetch fails or returns
\* nothing ends without writing the ledger or the copy and without calling
\* the description generator or the asset generator.
C10_NoCommitsNoEffect ==
  \A p \in CheckProcs :
    (pc[p] = "done" /\ outcome[p] = "no_commits") =>
      /\ io[p] = << >>
      /\ ~stale[p] => ledger = historyData[p]

\* a fetch failed although the feed holds commits the ledger has no event for
C10_Witness ==
  \E p \in CheckProcs :
    /\ Ended(p, "no_commits")
    /\ feed # {}
    /\ Len(History) = 0

\* the places of p's calls of one kind in the order of its external calls
IndexesOf(p, kind) == { i \in 1..Len(io[p]) : io[p][i][1] = kind }

\* C11: a check cycle that folded at least one commit called the asset
\* generator exactly once, after its last call of the description generator
\* and with the description of the last event it built; a cycle that folded
\* no commit never called it.
C11_PublishOnce ==
  \A p \in CheckProcs :
    pc[p] = "done" =>
      IF Len(newEvolutions[p]) >= 1
        THEN /\ Len(Published(p)) = 1
             /\ \A i \in IndexesOf(p, "publish"), j \in IndexesOf(p, "generate") : j < i
             /\ Published(p)[1][2] =
                  FinalDescription(newEvolutions[p][Len(newEvolutions[p])].newDescription)
        ELSE Len(Published(p)) = 0

\* a cycle folded two commits, the generator answering for the last one, and
\* its asset generation succeeded
C11_Witness ==
  \E p \in CheckProcs :
    /\ Ended(p, "evolved")
    /\ Len(newEvolutions[p]) = 2
    /\ newEvolutions[p][2].prompt # FallbackPrompt
    /\ Len(Generated(p)) = 2

\* how many times the trace t wrote the ledger
Writes(t) == Cardinality({ i \in 1..Len(t) : t[i][1] = "write" })

\* p writes the ledger in this step
WritesNow(p) == Writes(io'[p]) > Writes(io[p])

\* the ledger as p read it (simulateNewCommit has since incremented the
\* totalCommits of its copy)
Loaded(p) ==
  IF p = "sim" THEN [historyData[p] EXCEPT !.totalCommits = @ - 1] ELSE historyData[p]

\* the entry points that compute the ledger they write from a ledger they
\* loaded before an await
Updaters == CheckProcs \cup { "sim" }

\* C12 (Single writer): whenever a check cycle or the manual single step
\* writes the ledger, the ledger on disk is still the one it loaded: no other
\* entry point has written a different ledger in between, so no completed
\* write is lost.
C12_SingleWriter ==
  [][ \A p \in Updaters : WritesNow(p) => ledger = Loaded(p) ]_vars

\* s is a prefix of t
IsPrefix(s, t) == Len(s) <= Len(t) /\ SubSeq(t, 1, Len(s)) = s

\* the entry points that replace the whole history
Replacers == { "reset", "force" }

\* C13 (Append-only): every write of the ledger other than a reset or a force
\* replay keeps the events already persisted, unchanged and in place, and only
\* adds events after them, also when check cycles and single steps overlap.
C13_AppendOnly ==
  [][ \A p \in Procs \ Replacers :
        WritesNow(p) => IsPrefix(ledger.evolutionHistory, ledger'.evolutionHistory) ]_vars

\* the generator call failed: it answered with the sentinel prompt
Degraded(call) == call[4].prompt = FallbackPrompt

\* C14 (Generation degradation): when the generator fails for the commit a
\* check cycle folds at running level L, the cycle goes on: the event for that
\* commit is appended with the fallback entry min(L, 4) of the five-entry
\* table as newDescription and the sentinel as prompt, and the next commit of
\* the cycle is generated from that fallback description.
C14_Degradation ==
  /\ Len(fallbackDescriptions) = 5
  /\ \A p \in CheckProcs :
       \A k \in 1..Len(Generated(p)) :
         Degraded(Generated(p)[k]) =>
           LET L == Generated(p)[k][3]
           IN  /\ outcome[p] # "error"
               /\ k <= Len(newEvolutions[p])
               /\ newEvolutions[p][k].level = L + 1
               /\ newEvolutions[p][k].newDescription = fallbackDescriptions[Min(L, 4) + 1]
               /\ newEvolutions[p][k].prompt = << "Fallback used due to API error" >>
               /\ k < Len(Generated(p)) =>
                    Generated(p)[k + 1][2] = fallbackDescriptions[Min(L, 4) + 1]

\* a cycle folded a commit at level 4 and the next at level 5, the generator
\* failing both times, and went on to publish
C14_Witness ==
  \E p \in CheckProcs :
    /\ pc[p] = "done"
    /\ Len(Generated(p)) = 2
    /\ Degraded(Generated(p)[1]) /\ Generated(p)[1][3] = 4
    /\ Degraded(Generated(p)[2]) /\ Generated(p)[2][3] = 5
    /\ Len(History) = 6

\* the settled promise r is resolved, to an object with a prompt and a description
Resolved(r) ==
  /\ ~r.rejected
  /\ { "prompt", "description" } \subseteq DOMAIN r
  /\ r.prompt # << >>

\* C15: generateImprovedCharacterDescription never rejects: every call made by
\* a check cycle, a single step or a force replay resolved to an object with a
\* prompt and a description, and would have done so for every outcome of the
\* external call (missing API key, transport error, service error, malformed
\* body, or an answer).
C15_NeverRejects ==
  \A p \in Procs :
    \A k \in 1..Len(Generated(p)) :
      LET call == Generated(p)[k]
      IN  /\ Resolved(call[4])
          /\ \A resp \in AIResponses :
               Resolved(GenerateImprovedCharacterDescription(call[2], call[3], resp))
          /\ \E resp \in AIResponses :
               call[4] = GenerateImprovedCharacterDescription(call[2], call[3], resp)

\* the generator has failed for one caller and answered for another
C15_Witness ==
  \E p, q \in Procs :
    /\ p # q
    /\ Len(Generated(p)) >= 1 /\ Degraded(Generated(p)[1])
    /\ Len(Generated(q)) >= 1 /\ ~Degraded(Generated(q)[1])

\* C16 (All-or-nothing persistence): whatever the point at which a process
\* dies while it writes the ledger, the ledger file holds a complete document,
\* the previous one or the new one, never a part of one.
C16_AllOrNothing == ~torn

\* p ends in this step
EndsNow(p) == pc[p] # "done" /\ pc'[p] = "done"

\* C17 (Published copy in sync): when an entry point that wrote the ledger
\* ends, the copy under the assets directory holds the same document as the
\* ledger file.
C17_PublishedInSync ==
  [][ \A p \in Procs :
        (EndsNow(p) /\ Writes(io'[p]) >= 1) => published' = ledger' ]_vars

\* C18 (Force replay): a force replay that succeeded has written a history of
\* one event for each of the oldest maxCommits fetched commits (all of them
\* when fewer were fetched), oldest first, with levels 1, 2, ..., with
\* evolutionLevel and totalCommits equal to their number, and with the first
\* event starting from the canonical initial description.
C18_ForceReplay ==
  Ended("force", "true") =>
    LET cs == commits["force"]
        n  == Min(FORCE_MAX_COMMITS, Len(cs))
    IN  /\ Len(History) = n
        /\ \A i \in 1..Len(History) :
             /\ History[i].level = i
             /\ History[i].commitSha = cs[i].sha
        /\ \A i, j \in 1..Len(History) :
             i < j => History[i].commitDate <= History[j].commitDate
        /\ \A i \in 1..Len(cs) :
             i > n => cs[i].date >= History[n].commitDate
        /\ ledger.evolutionLevel = n
        /\ ledger.totalCommits = n
        /\ History[1].previousDescription = CanonicalDescription

\* C19 (Cursor is the newest commit): after a check cycle that evolved, the
\* ledger's lastCheckedCommit is the id of a fetched commit whose author date
\* is the greatest among the fetched commits, whatever the order of the fetch.
C19_CursorNewest ==
  \A p \in CheckProcs :
    Ended(p, "evolved") =>
      \E i \in 1..Len(commits[p]) :
        /\ commits[p][i].sha = ledger.lastCheckedCommit
        /\ \A j \in 1..Len(commits[p]) : commits[p][j].date <= commits[p][i].date

\* C20 (totalCommits is monotone): no check cycle and no manual single step,
\* in any interleaving, writes a ledger whose totalCommits is smaller than
\* that of the ledger it replaces.
C20_TotalMonotone ==
  [][ \A p \in Updaters : WritesNow(p) => ledger'.totalCommits >= ledger.totalCommits ]_vars

\* C21 (No commit counted twice): after any sequence of check cycles on a fresh
\* ledger, totalCommits is at most the number of distinct commits the feed
\* has ever held.
C21_CountedOnce == ledger.totalCommits <= Cardinality(feed)

\* p's check cycle has just written the ledger, and no one has written since
WroteAndEnded(p) == Ended(p, "evolved") \/ Ended(p, "cursor_only")

PublishInput(p) == IF p = "reset" THEN CanonicalDescription ELSE currentDesc[p]

\* C23 (Facing right): every description handed to the asset-generation
\* process has 'facing right' in it, whatever the case of its letters: it is
\* the description generateCharacter was given when that one has it, and that
\* description followed by ' facing right' when it has not.
C23_FacingRight ==
  \A p \in Procs :
    \A i \in IndexesOf(p, "publish") :
      LET given == PublishInput(p)
          final == io[p][i][2]
      IN  /\ ToLowerCase(final) \in WithFacingRight
          /\ ToLowerCase(given) \in WithFacingRight => final = given
          /\ ToLowerCase(given) \notin WithFacingRight => final = given \o " facing right"

\* one entry point has published a description that lacked 'facing right',
\* another one that has it in capitals
C23_Witness ==
  \E p, q \in Procs :
    /\ Len(Published(p)) = 1 /\ PublishInput(p) = "noodle wizard, ladle wand"
    /\ Len(Published(q)) = 1 /\ PublishInput(q) = "Knight Facing RIGHT, pot helm"

\* the ways the promise of an entry point settles, or fails to: "rejected" is
\* an exception that reaches the caller, "crashed" the death of the process
Rejections == { "rejected" }

\* C24: checkForEvolution never rejects: whether the ledger cannot be read,
\* the commit search fails, the generator fails, the asset generation fails
\* or the write of the ledger throws, the cycle ends in a branch that resolves
\* its promise.
C24_CheckNeverRejects ==
  \A p \in CheckProcs :
    pc[p] = "done" =>
      /\ outcome[p] \notin Rejections
      /\ outcome[p] \in { "no_commits", "no_new", "cursor_only", "evolved",
                          "publish_failed", "write_failed", "error", "crashed" }

\* one cycle ended on a write that threw, after a generator failure; another
\* could not read the ledger
C24_Witness ==
  /\ pc["check1"] = "done" /\ outcome["check1"] = "write_failed"
  /\ Len(Generated("check1")) >= 1 /\ Degraded(Generated("check1")[1])
  /\ pc["check2"] = "done" /\ outcome["check2"] = "error" /\ io["check2"] = << >>
  /\ torn

\* C25 (One canonical initial description): a ledger at level 0 (as created
\* on first run, by copy-commit-history.js or by a reset) holds the canonical
\* initial description, and the first event of a force replay starts from it.
C25_SingleCanonical ==
  /\ ledger.evolutionLevel = 0 => ledger.currentCharacterDescription = CanonicalDescription
  /\ Ended("force", "true") => History[1].previousDescription = CanonicalDescription

\* C26 (Commits counted equal levels reached): with one level per commit, in
\* every ledger persisted by entry points run one after the other from a
\* fresh ledger, totalCommits equals evolutionLevel.
C26_TotalIsLevel ==
  /\ ledger.totalCommits = ledger.evolutionLevel
  /\ published.totalCommits = published.evolutionLevel

\* check cycles folded two commits, then a single step ran and wrote
C26_Witness ==
  /\ Writes(io["sim"]) >= 1
  /\ ledger.totalCommits = 3
  /\ ledger.evolutionLevel = 3
  /\ History[1].commitMessage # "Test evolution"
  /\ History[2].commitMessage # "Test evolution"

\* C27 (Event levels count up from 1): in every persisted ledger the k-th
\* event of evolutionHistory has level k, whatever check cycles, single steps
\* and force replays wrote it.
C27_LevelsCountUp ==
  /\ \A k \in 1..Len(History) : History[k].level = k
  /\ \A k \in 1..Len(published.evolutionHistory) : published.evolutionHistory[k].level = k

\* a cycle that folded two commits and a single step both wrote: the ledger
\* holds three events, the last one pushed by simulateNewCommit
C27_Witness ==
  /\ Len(History) = 3
  /\ History[3].commitMessage = "Test evolution"
  /\ \E p \in CheckProcs :
       pc[p] = "done" /\ outcome[p] = "evolved" /\ Len(newCommits[p]) = 2

\* C28 (Single step persists only after publishing): simulateNewCommit has
\* not written the ledger while AssetPublisher is still awaited, nor when it
\* ended because AssetPublisher failed.
C28_SimWritesAfterPublish ==
  /\ pc["sim"] = "publish" => Writes(io["sim"]) = 0
  /\ (pc["sim"] = "done" /\ outcome["sim"] = "error") => Writes(io["sim"]) = 0

\* C29 (Force replay is all or nothing): while forceEvolution runs it has
\* written nothing; when it ends without success (the search returned nothing,
\* or AssetPublisher failed) it leaves the ledger and the published copy as
\* they are and has written nothing; when it succeeds it has called
\* AssetPublisher, then written the whole rebuilt ledger once and copied it.
C29_ForceAllOrNothing ==
  [][ /\ pc'["force"] \in { "fetch", "generate", "publish" } => NoWrite("force")'
      /\ EndsNow("force") =>
           IF outcome'["force"] = "true"
             THEN /\ ledger' = ForcedHistory(newCommits["force"], currentDesc["force"],
                                             newEvolutions["force"], now)
                  /\ published' = ledger'
                  /\ Writes(io'["force"]) = 1
                  /\ Len(Published("force")') = 1
                  /\ \A i \in IndexesOf("force", "publish")', j \in IndexesOf("force", "write")' :
                       i < j
             ELSE /\ outcome'["force"] \in { "no_commits", "false" }
                  /\ ledger' = ledger
                  /\ published' = published
                  /\ NoWrite("force")' ]_vars

\* a force replay rebuilt two events over a ledger that a check cycle had
\* evolved, its asset generation failed, and the ledger is still the old one
C29_Witness ==
  /\ pc["force"] = "done" /\ outcome["force"] = "false"
  /\ Len(newEvolutions["force"]) = 2
  /\ Len(Published("force")) = 1
  /\ ledger.evolutionLevel >= 1
  /\ History[1].previousDescription = CanonicalDescription

\* the cycle of p ended in a branch that lies behind its loop
LoopCompleted(p) ==
  pc[p] = "done" /\ outcome[p] \in { "evolved", "publish_failed", "write_failed" }

\* C30 (Chained generation): in a check cycle that loaded level L and
\* description D and found n new commits, the k-th call of the description
\* generator receives level L + k - 1 and the description the (k-1)-th call
\* returned (D for k = 1); the asset generator is called after all of them,
\* and a cycle that went through its loop made exactly n calls.
C30_ChainedGeneration ==
  \A p \in CheckProcs :
    pc[p] # "idle" =>
      LET calls == Generated(p)
          L == historyData[p].evolutionLevel
          D == historyData[p].currentCharacterDescription
      IN  /\ \A k \in 1..Len(calls) :
               /\ calls[k][3] = L + k - 1
               /\ calls[k][2] = IF k = 1 THEN D ELSE calls[k - 1][4].description
               /\ ~calls[k][4].rejected
          /\ Len(calls) >= 1 => Len(calls) <= Len(newCommits[p])
          /\ pc[p] = "generate" => Len(calls) < Len(newCommits[p])
          /\ pc[p] = "publish" => Len(calls) = Len(newCommits[p])
          /\ LoopCompleted(p) => Len(calls) = Len(newCommits[p])
          /\ \A i \in IndexesOf(p, "generate"), j \in IndexesOf(p, "publish") : i < j

\* a cycle that loaded a ledger already at level 1 or more folded two commits:
\* its second call got the next level and the description its first call returned
C30_Witness ==
  \E p \in CheckProcs :
    /\ LoopCompleted(p)
    /\ historyData[p].evolutionLevel >= 1
    /\ Len(Generated(p)) = 2
    /\ Generated(p)[2][3] = historyData[p].evolutionLevel + 1
    /\ Generated(p)[2][2] = Generated(p)[1][4].description
    /\ Generated(p)[2][2] # historyData[p].currentCharacterDescription

\* the branches in which a check cycle ends because a call outside it failed
\* (with a commit in the feed, an empty answer of the search is a failure)
AbortedOutcomes == { "no_commits", "publish_failed", "write_failed", "error" }

\* C31 (Retry after failure): if the scheduled cycles keep starting and
\* from some time on none of them is aborted by a failed search, a failed
\* asset generation or a failed write, then every commit in the feed
\* eventually has an event in the persisted history.
C31_EventuallyFolded ==
  ( /\ []<>(pc["check1"] = "fetch")
    /\ <>[](outcome["check1"] \notin AbortedOutcomes) )
  => \A c \in AllCommits : [](c \in feed => <>(c.sha \in ShasOf(History)))

\* C32 (A reset stands): when resetEvolutionHistory has returned and no check
\* cycle of the run of reset-evolution.js is in flight, no commit having
\* reached the feed meanwhile, the persisted ledger is the canonical one, at
\* level 0 with an empty history.
C32_ResetStands ==
  ( /\ pc["reset"] = "done"
    /\ \A p \in CheckProcs : pc[p] \in { "idle", "done" } )
  => /\ ledger.evolutionLevel = 0
     /\ ledger.totalCommits = 0
     /\ History = << >>
     /\ ledger.currentCharacterDescription = CanonicalDescription

\* the check cycle of p is between its read of the ledger and its end
InFlight(p) == pc[p] \notin { "idle", "done" }

\* the commits p's cycle found new
NewOf(p) == { newCommits[p][i] : i \in 1..Len(newCommits[p]) }

\* C33 (No overlap at startup): under evolve-character.js no two check cycles
\* are in flight at once, and no commit is folded (description generator
\* called for it) by two cycles.
C33_NoOverlapAtStartup ==
  /\ ~(InFlight("check1") /\ InFlight("check2"))
  /\ \A c \in AllCommits :
       Cardinality({ p \in CheckProcs : Len(Generated(p)) >= 1 /\ c \in NewOf(p) }) <= 1

\* the search answered p with commits whose first one is not the cursor p
\* loaded, and none of them counts as new
CursorMovedNothingNew(p) ==
  /\ pc[p] = "fetch" /\ pc'[p] # "fetch"
  /\ Len(commits'[p]) >= 1
  /\ commits'[p][1].sha # historyData[p].lastCheckedCommit
  /\ NewCommitsOf(commits'[p], historyData[p]) = << >>

\* C34 (Cursor-only update): a check cycle whose first fetched commit is not
\* the cursor it loaded, and which finds no fetched commit new, ends at once,
\* having called neither the description generator nor the asset generator;
\* the ledger it writes is the one it loaded with only lastCheckedCommit and
\* lastCheckedDate replaced (or nothing is written, when the write fails), so
\* that level, count, description and history of a ledger nobody else wrote
\* in between are unchanged.
C34_CursorOnly ==
  [][ \A p \in CheckProcs :
        CursorMovedNothingNew(p) =>
          /\ pc'[p] = "done"
          /\ outcome'[p] \in { "cursor_only", "write_failed" }
          /\ Generated(p)' = << >> /\ Published(p)' = << >>
          /\ IF outcome'[p] = "cursor_only"
               THEN /\ ledger' = [ historyData[p] EXCEPT
                                     !.lastCheckedCommit = commits'[p][1].sha,
                                     !.lastCheckedDate   = now ]
                    /\ published' = ledger'
                    /\ Writes(io'[p]) = 1
               ELSE UNCHANGED << ledger, published >> /\ NoWrite(p)'
          /\ ~stale[p] =>
               /\ ledger'.evolutionLevel = ledger.evolutionLevel
               /\ ledger'.totalCommits = ledger.totalCommits
               /\ ledger'.currentCharacterDescription = ledger.currentCharacterDescription
               /\ ledger'.evolutionHistory = ledger.evolutionHistory ]_vars

\* a cycle on a ledger with an event moved the cursor to a commit authored
\* before the last check and folded nothing
C34_Witness ==
  \E p \in CheckProcs :
    /\ Ended(p, "cursor_only")
    /\ Len(History) >= 1
    /\ historyData[p].lastCheckedCommit # ""
    /\ ledger.lastCheckedCommit # historyData[p].lastCheckedCommit
    /\ ledger.lastCheckedCommit = commits[p][1].sha
    /\ newCommits[p] = << >>
    /\ ledger.evolutionHistory = historyData[p].evolutionHistory

\* generate-character.js takes a step (and is not just seen to have ended)
GenSteps == pc["gen"] # "done" /\ pc'["gen"] # pc["gen"]

C36_NonEmptyDescription ==
  /\ \A p \in Procs : \A k \in 1..Len(Generated(p)) : Generated(p)[k][4].description # ""
  /\ \A k \in 1..Len(History) : History[k].newDescription # ""
  /\ ledger.currentCharacterDescription # ""

====
